---- MODULE Spec2Model ----
(***************************************************************************)
(* rent-bot (src/app.py): the negotiation store, the rent estimator and    *)
(* the negotiation engine behind the three endpoints start-negotiation,    *)
(* continue-negotiation and get-negotiation-context.                       *)
(*                                                                         *)
(* The store is the table `negotiations` (one row per create_negotiation), *)
(* the reasoning service and the scraper are the environment: each call    *)
(* to them either raises or returns a value drawn from a small set.        *)
(* Text is a tuple of one-character strings, so that the pattern match of  *)
(* the fallback is computed and not assumed.                               *)
(***************************************************************************)
EXTENDS Integers, Sequences, FiniteSets, TLC

VARIABLES
    db,        \* the table negotiations: a sequence of rows, index = id
    now,       \* the last value datetime.utcnow() returned
    client,    \* whether the name `client` is bound (src/app.py:23)
    last,      \* what the last finished call read, decided and answered
    proc       \* the calls in flight, when calls interleave

vars == <<db, now, client, last, proc>>

\* ------------------------------------------------------------------ bounds
\* datetime.utcnow() is read at most MaxClock times in a behaviour
MaxClock == 14
\* create_negotiation inserts at most MaxRows rows
MaxRows == 2

\* ------------------------------------------------------------- Python values
None == <<>>
Some(x) == <<x>>

\* `x or y` for an optional number x: None and 0 are falsy
Or(x, y) == IF x = None \/ x = Some(0) THEN y ELSE x[1]

\* bool(x) for an optional number
Truthy(x) == x /= None /\ x /= Some(0)

Abs(x) == IF x < 0 THEN 0 - x ELSE x

\* int(x * 1.1): the double 1.1 lies just above 11/10, int() truncates towards 0
IntTimes11(x) == IF x >= 0 THEN (11 * x) \div 10 ELSE 0 - ((11 * (0 - x)) \div 10)

\* int(x * 0.9): the double 0.9 lies just above 9/10
IntTimes09(x) == IF x >= 0 THEN (9 * x) \div 10 ELSE 0 - ((9 * (0 - x)) \div 10)

\* ------------------------------------------------------------------- inputs
NoEmail == ""
Emails == {"a"}

\* an email no negotiation is ever started for
UnknownEmail == "b"

\* the tenant_email of a continue or context request
RequestEmails == Emails \cup {UnknownEmail, NoEmail}

\* a second tenant with a negotiation of their own
OtherEmail == "c"
PairEmails == Emails \cup {OtherEmail}

\* request field current_rent after int(data.get("current_rent", 0))
RentInputs == {0, 2500}

\* int() accepts any integer: a negative current_rent too
SignedRentInputs == RentInputs \cup {-100}

\* request field target_rent: absent, or a number
TargetInputs == {None, Some(2400), Some(2900)}

\* get_zillow_rent_estimate: None, or a scraped figure within 500..20000
ZillowReplies == {None, Some(2800)}

\* the estimate of the reasoning service: None when the call raises or the
\* reply holds no digit, else the number read from the reply
EstimateReplies == {None, Some(2800)}

\* current_rent and service figures around the limits of the sanity check:
\* below 500, at and just past 50% above 2500, above 50000
EstimateRents == {0, 900, 2500}
WideEstimateReplies ==
    {None, Some(499), Some(1250), Some(3750), Some(3751), Some(50001)}

\* tenant messages, as text; <<>> is the empty message
M_empty == <<>>
M_ok == <<"o", "k">>
M_2800 == <<"$", "2", ",", "8", "0", "0", " ", "x", "1", "2">>
TenantMessages == {M_empty, M_ok, M_2800}

\* the structured analysis the reasoning service may reply with: an
\* acceptance (the counter is then not read), or a refusal with a counter
Analyses ==
    [tenant_offer : {None, Some(0), Some(2600)},
     tenant_intent : {"accepting"},
     should_accept : {TRUE},
     recommended_counter : {None}]
    \cup
    [tenant_offer : {None},
     tenant_intent : {"countering"},
     should_accept : {FALSE},
     recommended_counter : {None, Some(2400), Some(2700)}]
    \cup
    [tenant_offer : {Some(2900)},
     tenant_intent : {"countering"},
     should_accept : {FALSE},
     recommended_counter : {None}]

Raise == [raise |-> TRUE]

\* a reply json.loads raises on (text that is not JSON)
Unparseable == [unusable |-> "not_json"]

\* a reply json.loads returns a list, a string or a number for: the first
\* analysis.get (src/app.py:424) raises AttributeError, inside the try
NotAnObject == [unusable |-> "not_object"]

\* a JSON object with none of the expected keys: every analysis.get returns
\* None, which is falsy where should_accept is tested
NoFields ==
    [tenant_offer |-> None, tenant_intent |-> "missing",
     should_accept |-> FALSE, recommended_counter |-> None]

UnusableReplies == {Unparseable, NotAnObject, NoFields}

\* what client.chat.completions.create + json.loads yield at the analysis
\* step: an exception, a reply that is not the structured analysis, or a
\* parsed analysis
AnalysisReplies == {Raise} \cup UnusableReplies \cup Analyses

\* what the service yields at the letter step: an exception, or the letter
\* text after .strip()
LetterReplies == {Raise, [text |-> <<"L">>]}

\* a reply whose content is empty after .strip()
EmptyLetter == [text |-> <<>>]

\* ------------------------------------------------------------ text matching
DigitVal ==
    ("0" :> 0) @@ ("1" :> 1) @@ ("2" :> 2) @@ ("3" :> 3) @@ ("4" :> 4) @@
    ("5" :> 5) @@ ("6" :> 6) @@ ("7" :> 7) @@ ("8" :> 8) @@ ("9" :> 9)

IsDigit(c) == c \in DOMAIN DigitVal

\* the first position >= i of s that holds a digit, 0 if none
RECURSIVE FirstDigit(_, _)
FirstDigit(s, i) ==
    IF i > Len(s) THEN 0
    ELSE IF IsDigit(s[i]) THEN i
    ELSE FirstDigit(s, i + 1)

\* \d+ is greedy: the last position of the digit run that starts at i
RECURSIVE DigitsEnd(_, _)
DigitsEnd(s, i) ==
    IF i + 1 <= Len(s) /\ IsDigit(s[i + 1]) THEN DigitsEnd(s, i + 1) ELSE i

\* (?:,\d{3})* is greedy: the last position matched after position j
RECURSIVE GroupsEnd(_, _)
GroupsEnd(s, j) ==
    IF /\ j + 4 <= Len(s)
       /\ s[j + 1] = ","
       /\ IsDigit(s[j + 2]) /\ IsDigit(s[j + 3]) /\ IsDigit(s[j + 4])
    THEN GroupsEnd(s, j + 4)
    ELSE j

\* int() of a tuple of digits
RECURSIVE IntOf(_)
IntOf(ds) ==
    IF ds = <<>> THEN 0
    ELSE 10 * IntOf(SubSeq(ds, 1, Len(ds) - 1)) + DigitVal[ds[Len(ds)]]

\* re.findall(r'\$?(\d+(?:,\d{3})*)', s)[0] as text, None if there is no match
FirstAmountText(s) ==
    LET i == FirstDigit(s, 1)
    IN  IF i = 0 THEN None
        ELSE Some(SubSeq(s, i, GroupsEnd(s, DigitsEnd(s, i))))

\* int(amounts[0].replace(',', ''))
ParseAmount(t) == IntOf(SelectSeq(t, LAMBDA c : c /= ","))

\* ------------------------------------------------------------------- store
Row(id, email, current_rent, target_rent, created, updated) ==
    [id |-> id,
     tenant_email |-> email,
     current_rent |-> current_rent,
     initial_target_rent |-> target_rent,
     current_target_rent |-> target_rent,
     status |-> "active",
     conversation_history |-> <<>>,
     created_at |-> created,
     updated_at |-> updated]

RowsOf(d, tenant_email) == {i \in DOMAIN d : d[i].tenant_email = tenant_email}

\* SELECT ... WHERE tenant_email=? ORDER BY updated_at DESC LIMIT 1:
\* the id of the row returned, 0 for no row. Rows with equal updated_at
\* come in an order SQL leaves to the engine.
TieOrders == {"lowest_id", "highest_id"}

\* the orders that give different answers for tenant_email in store d
TiesOf(d, tenant_email) ==
    IF \E i, j \in RowsOf(d, tenant_email) :
            /\ i /= j
            /\ d[i].updated_at = d[j].updated_at
            /\ \A k \in RowsOf(d, tenant_email) : d[k].updated_at <= d[i].updated_at
    THEN TieOrders
    ELSE {"lowest_id"}

get_negotiation(d, tenant_email, tie) ==
    LET rows == RowsOf(d, tenant_email)
        latest == {i \in rows : \A j \in rows : d[j].updated_at <= d[i].updated_at}
    IN  IF rows = {} THEN 0
        ELSE IF tie = "lowest_id"
             THEN CHOOSE i \in latest : \A j \in latest : i <= j
             ELSE CHOOSE i \in latest : \A j \in latest : i >= j

\* INSERT INTO negotiations: created_at and updated_at are two clock reads
create_negotiation(d, tenant_email, current_rent, target_rent, t1, t2) ==
    Append(d, Row(Len(d) + 1, tenant_email, current_rent, target_rent, t1, t2))

\* the UPDATE with initial_target_rent set along with current_target_rent
update_negotiation_rebasing(d, tenant_email, fields, t) ==
    [i \in DOMAIN d |->
        IF d[i].tenant_email = tenant_email
        THEN [d[i] EXCEPT
                !.updated_at = t,
                !.status =
                    IF "status" \in DOMAIN fields THEN fields.status ELSE @,
                !.current_target_rent =
                    IF "current_target_rent" \in DOMAIN fields
                    THEN fields.current_target_rent ELSE @,
                !.initial_target_rent =
                    IF "current_target_rent" \in DOMAIN fields
                    THEN fields.current_target_rent ELSE @,
                !.conversation_history =
                    IF "conversation_history" \in DOMAIN fields
                    THEN fields.conversation_history ELSE @]
        ELSE d[i]]

\* UPDATE negotiations SET fields, updated_at WHERE tenant_email=?
\* (every row of that email); fields holds some of status,
\* current_target_rent and conversation_history
update_negotiation(d, tenant_email, fields, t) ==
    [i \in DOMAIN d |->
        IF d[i].tenant_email = tenant_email
        THEN [d[i] EXCEPT
                !.updated_at = t,
                !.status =
                    IF "status" \in DOMAIN fields THEN fields.status ELSE @,
                !.current_target_rent =
                    IF "current_target_rent" \in DOMAIN fields
                    THEN fields.current_target_rent ELSE @,
                !.conversation_history =
                    IF "conversation_history" \in DOMAIN fields
                    THEN fields.conversation_history ELSE @]
        ELSE d[i]]

\* every entry stored as a manager entry
Entry_as_assistant(role, content, t) ==
    [role |-> "assistant", content |-> content, timestamp |-> t]

Entry(role, content, t) == [role |-> role, content |-> content, timestamp |-> t]

\* the entry put first instead of last
AppendEntry_prepends(history, entry) == <<entry>> \o history

\* history.append(entry), then the whole history is written back
AppendEntry(history, entry) == Append(history, entry)

\* add_message_to_history: read the live row, append, write back;
\* t1 is the entry's timestamp and t2 the row's updated_at
add_message_to_history(d, tenant_email, role, content, tie, t1, t2) ==
    LET n == get_negotiation(d, tenant_email, tie)
    IN  IF n = 0 THEN d
        ELSE update_negotiation(d, tenant_email,
                [conversation_history |->
                    AppendEntry(d[n].conversation_history, Entry(role, content, t1))],
                t2)

\* get_conversation_history: roles and contents, without timestamps
get_conversation_history(d, tenant_email, tie) ==
    LET n == get_negotiation(d, tenant_email, tie)
    IN  IF n = 0 THEN <<>>
        ELSE [k \in DOMAIN d[n].conversation_history |->
                [role |-> d[n].conversation_history[k].role,
                 content |-> d[n].conversation_history[k].content]]

\* ------------------------------------------------------------ rent estimator
\* the sanity check without the comparison with current_rent
Reasonable_range_only(ai_rent, current_rent) ==
    500 <= ai_rent /\ ai_rent <= 50000

\* the sanity check of the service's figure (src/app.py:607); the division
\* by current_rent raises for 0, and a negative current_rent makes the
\* quotient negative
Reasonable(ai_rent, current_rent) ==
    /\ 500 <= ai_rent /\ ai_rent <= 50000
    /\ current_rent /= 0
    /\ (current_rent > 0 => 2 * Abs(ai_rent - current_rent) <= current_rent)

\* estimate_rent_internal: the scraped figure, else the service's figure when
\* the client is bound and the figure passes the sanity check, else +10%
estimate_rent_internal(current_rent, zillow, ai, cl) ==
    IF Truthy(zillow)
    THEN [estimated_rent |-> zillow[1], source |-> "zillow", confidence |-> "high"]
    ELSE IF cl = "bound" /\ ai /= None /\ Reasonable(ai[1], current_rent)
    THEN [estimated_rent |-> ai[1], source |-> "ai_estimate", confidence |-> "medium"]
    ELSE [estimated_rent |-> IntTimes11(current_rent),
          source |-> "fallback_estimate", confidence |-> "low"]

\* ---------------------------------------------------------------- the engine
TextContent(text) == [kind |-> "text", text |-> text, figures |-> <<>>]

\* the opening letter as a text the service generated
opening_letter_generated(negotiation) == TextContent(<<"L">>)

\* the template of the opening letter: the dollar figures it prints
opening_letter(negotiation) ==
    [kind |-> "opening",
     text |-> <<>>,
     figures |-> <<negotiation.current_rent,
                   negotiation.initial_target_rent,
                   IntTimes09(negotiation.initial_target_rent),
                   IntTimes11(negotiation.initial_target_rent)>>]

\* the call with the name `client` taken as bound
ServiceCall_bound(cl, reply) == reply

\* a call of client.chat.completions.create: a NameError when `client` is
\* unbound, else what the service does
ServiceCall(cl, reply) == IF cl = "unbound" THEN Raise ELSE reply

Raised(reply) == "raise" \in DOMAIN reply

\* the try block of the analysis step ends in its except branch: the call
\* raised, json.loads raised, or analysis.get raised on a non-object
Excepted(reply) == Raised(reply) \/ "unusable" \in DOMAIN reply

\* the fallback with > for >=
fallback_analysis_strict(negotiation, tenant_message) ==
    LET amount == FirstAmountText(tenant_message)
        offer == IF amount = None THEN None ELSE Some(ParseAmount(amount[1]))
    IN  [tenant_offer |-> offer,
         tenant_intent |-> "discussing",
         should_accept |->
            (offer /= None /\ offer[1] > negotiation.current_target_rent),
         recommended_counter |-> Some(negotiation.current_target_rent)]

\* the except branch of the analysis step (src/app.py:431-447)
fallback_analysis(negotiation, tenant_message) ==
    LET amount == FirstAmountText(tenant_message)
        offer == IF amount = None THEN None ELSE Some(ParseAmount(amount[1]))
    IN  [tenant_offer |-> offer,
         tenant_intent |-> "discussing",
         should_accept |->
            (offer /= None /\ offer[1] >= negotiation.current_target_rent),
         recommended_counter |-> Some(negotiation.current_target_rent)]

\* STEP 1: the analysis the rest of the call uses
analyse(negotiation, tenant_message, reply) ==
    IF Excepted(reply) THEN fallback_analysis(negotiation, tenant_message) ELSE reply

\* the agreed rent without the offer
agreed_rent_position(analysis, negotiation) == negotiation.current_target_rent

\* analysis.get('tenant_offer') or negotiation['current_target_rent']
agreed_rent(analysis, negotiation) ==
    Or(analysis.tenant_offer, negotiation.current_target_rent)

\* analysis.get('recommended_counter') or negotiation['current_target_rent']
counter_amount(analysis, negotiation) ==
    Or(analysis.recommended_counter, negotiation.current_target_rent)

\* the letter prompt with the position for every figure
letter_figure_position(analysis, negotiation) == negotiation.current_target_rent

\* STEP 2: the figure the letter prompt asks the service to state
letter_figure(analysis, negotiation) ==
    IF analysis.should_accept
    THEN agreed_rent(analysis, negotiation)
    ELSE counter_amount(analysis, negotiation)

\* STEP 3 with the status written on a counteroffer too
transition_fields_countered(analysis, negotiation) ==
    IF analysis.should_accept
    THEN [status |-> "accepted",
          current_target_rent |-> agreed_rent(analysis, negotiation)]
    ELSE [status |-> "countered",
          current_target_rent |-> counter_amount(analysis, negotiation)]

\* STEP 3 without the status on acceptance
transition_fields_position_only(analysis, negotiation) ==
    IF analysis.should_accept
    THEN [current_target_rent |-> agreed_rent(analysis, negotiation)]
    ELSE [current_target_rent |-> counter_amount(analysis, negotiation)]

\* STEP 3: the fields written to the store (src/app.py:497-517)
transition_fields(analysis, negotiation) ==
    IF analysis.should_accept
    THEN [status |-> "accepted",
          current_target_rent |-> agreed_rent(analysis, negotiation)]
    ELSE [current_target_rent |-> counter_amount(analysis, negotiation)]

\* the status negotiate_with_ai returns after STEP 3
returned_status(analysis) ==
    IF analysis.should_accept THEN "accepted" ELSE "countered"

\* what a call of negotiate_with_ai leaves behind and returns
Outcome ==
    [db |-> <<>>, now |-> 0, letter_text |-> None, status |-> "error",
     figure |-> None, negotiation |-> None, analysis |-> None,
     path |-> "none", prompt_figure |-> None]

\* negotiate_with_ai on store d at clock t, run without interleaving
negotiate_with_ai(d, t, tie, cl, tenant_email, tenant_message, aReply, lReply) ==
    LET n == get_negotiation(d, tenant_email, tie)
    IN  IF n = 0
        THEN [Outcome EXCEPT !.db = d, !.now = t]
        ELSE
        LET negotiation == d[n]
        IN  IF tenant_message = <<>>
            THEN \* the opening letter, from the template
                LET letter == opening_letter(negotiation)
                IN  [Outcome EXCEPT
                        !.db = add_message_to_history(d, tenant_email, "assistant",
                                    letter, tie, t + 1, t + 2),
                        !.now = t + 2,
                        !.letter_text = Some(letter),
                        !.status = "countered",
                        !.figure = Some(negotiation.current_target_rent),
                        !.negotiation = Some(negotiation),
                        !.path = "template"]
            ELSE
            LET d1 == add_message_to_history(d, tenant_email, "user",
                            TextContent(tenant_message), tie, t + 1, t + 2)
                aGot == ServiceCall(cl, aReply)
                analysis == analyse(negotiation, tenant_message, aGot)
                lGot == ServiceCall(cl, lReply)
                seen == [Outcome EXCEPT
                            !.negotiation = Some(negotiation),
                            !.analysis = Some(analysis),
                            !.path = IF Excepted(aGot) THEN "fallback" ELSE "service",
                            !.prompt_figure = Some(letter_figure(analysis, negotiation))]
            IN  IF Raised(lGot)
                THEN [seen EXCEPT !.db = d1, !.now = t + 2]
                ELSE
                LET d2 == add_message_to_history(d1, tenant_email, "assistant",
                                TextContent(lGot.text), tie, t + 3, t + 4)
                    fields == transition_fields(analysis, negotiation)
                IN  [seen EXCEPT
                        !.db = update_negotiation(d2, tenant_email, fields, t + 5),
                        !.now = t + 5,
                        !.letter_text = Some(TextContent(lGot.text)),
                        !.status = returned_status(analysis),
                        !.figure = Some(fields.current_target_rent)]

\* truthiness of the letter text negotiate_with_ai returned
HasLetter(o) == o.letter_text /= None /\ o.letter_text[1] /= TextContent(<<>>)

\* ------------------------------------------------------------ observations
\* the record of a finished call: the request, what the call read
\* (negotiation: the row read at src/app.py:317), what the service yielded
\* at the analysis step (reply), what the estimator was called with and
\* what the scraper and the service yielded to it (estimate), what the call
\* decided and the response it sent
NoCall ==
    [op |-> "none", tenant_email |-> NoEmail, tenant_message |-> <<>>,
     http |-> 0, status |-> "none", letter_text |-> None, figure |-> None,
     negotiation |-> None, analysis |-> None, path |-> "none",
     prompt_figure |-> None, source |-> "none", context |-> None,
     reply |-> None, estimate |-> None]

Answer(op, tenant_email, tenant_message, http, status) ==
    [NoCall EXCEPT !.op = op, !.tenant_email = tenant_email,
                   !.tenant_message = tenant_message,
                   !.http = http, !.status = status]

\* a request thread: where it stands in continue_negotiation, its locals
\* (negotiation: the row read at src/app.py:317; history and messages: the
\* history read at 322 and the request messages built from it at 328-333,
\* without the system prompt; read: the history add_message_to_history
\* read and has not written back yet), what the
\* service replied to it, the timestamps of the entries it wrote, and the
\* store and clock it found when it began
NoProc ==
    [pc |-> "idle", tenant_email |-> NoEmail, tenant_message |-> <<>>,
     negotiation |-> None, read |-> None, aReply |-> Raise, lReply |-> Raise,
     analysis |-> None, letter_text |-> None, http |-> 0, status |-> "none",
     user_ts |-> 0, letter_ts |-> 0, base |-> None,
     history |-> <<>>, messages |-> <<>>]

Procs == {1, 2}

\* -------------------------------------------------------------------- Init
Init ==
    /\ db = <<>>
    /\ now = 0
    /\ client \in {"bound", "unbound"}
    /\ last = NoCall
    /\ proc = [p \in Procs |-> NoProc]

\* ----------------------------------------------- the endpoints, one at a time
\* POST /ai/start-negotiation (src/app.py:634-695)
start_negotiation(tenant_email, current_rent, target_rent, zillow, ai) ==
    /\ last = NoCall
    /\ UNCHANGED <<client, proc>>
    /\ IF tenant_email = NoEmail \/ current_rent = 0
       THEN /\ last' = Answer("start", tenant_email, <<>>, 400, "error")
            /\ UNCHANGED <<db, now>>
       ELSE
       LET estimated == estimate_rent_internal(current_rent, zillow, ai, client)
           target == IF Truthy(target_rent) THEN target_rent[1]
                     ELSE estimated.estimated_rent
           d1 == create_negotiation(db, tenant_email, current_rent, target,
                                    now + 1, now + 2)
           o == negotiate_with_ai(d1, now + 2, "lowest_id", client, tenant_email,
                                  <<>>, Raise, Raise)
       IN  /\ Len(db) < MaxRows
           /\ o.now <= MaxClock
           /\ db' = o.db
           /\ now' = o.now
           /\ last' =
                [Answer("start", tenant_email, <<>>,
                        IF HasLetter(o) THEN 200 ELSE 500,
                        IF HasLetter(o) THEN "initial" ELSE "error")
                 EXCEPT !.letter_text = o.letter_text,
                        !.figure = Some(target),
                        !.negotiation = o.negotiation,
                        !.path = o.path,
                        !.source = IF Truthy(target_rent) THEN "request"
                                   ELSE estimated.source,
                        !.estimate =
                            IF Truthy(target_rent) THEN None
                            ELSE Some([current_rent |-> current_rent,
                                       zillow |-> zillow, ai |-> ai])]

\* POST /ai/estimate-rent (src/app.py:526-543)
estimate_rent(current_rent, zillow, ai) ==
    /\ last = NoCall
    /\ UNCHANGED <<db, now, client, proc>>
    /\ LET result == estimate_rent_internal(current_rent, zillow, ai, client)
       IN  last' =
                [Answer("estimate", NoEmail, <<>>, 200, result.confidence)
                 EXCEPT !.figure = Some(result.estimated_rent),
                        !.source = result.source,
                        !.estimate = Some([current_rent |-> current_rent,
                                           zillow |-> zillow, ai |-> ai])]

\* the checks without the one on tenant_message
continue_rejects_email_only(d, tenant_email, tenant_message, tie) ==
    IF tenant_email = NoEmail THEN 400
    ELSE IF get_negotiation(d, tenant_email, tie) = 0 THEN 404
    ELSE 0

\* src/app.py:711-720: the HTTP status continue_negotiation answers with
\* before the engine runs, 0 when the request goes on to the engine
continue_rejects(d, tenant_email, tenant_message, tie) ==
    IF tenant_email = NoEmail \/ tenant_message = <<>> THEN 400
    ELSE IF get_negotiation(d, tenant_email, tie) = 0 THEN 404
    ELSE 0

\* POST /ai/continue-negotiation (src/app.py:698-732)
continue_negotiation(tenant_email, tenant_message, aReply, lReply, tie) ==
    /\ last = NoCall
    /\ UNCHANGED <<client, proc>>
    /\ IF continue_rejects(db, tenant_email, tenant_message, tie) /= 0
       THEN /\ last' = Answer("continue", tenant_email, tenant_message,
                    continue_rejects(db, tenant_email, tenant_message, tie),
                    "error")
            /\ UNCHANGED <<db, now>>
       ELSE
       LET o == negotiate_with_ai(db, now, tie, client, tenant_email,
                                  tenant_message, aReply, lReply)
       IN  /\ o.now <= MaxClock
           /\ db' = o.db
           /\ now' = o.now
           /\ last' =
                [Answer("continue", tenant_email, tenant_message,
                        IF HasLetter(o) THEN 200 ELSE 500,
                        IF HasLetter(o) THEN o.status ELSE "error")
                 EXCEPT !.letter_text = o.letter_text,
                        !.figure = IF HasLetter(o) THEN o.figure ELSE None,
                        !.negotiation = o.negotiation,
                        !.analysis = o.analysis,
                        !.path = o.path,
                        !.prompt_figure = o.prompt_figure,
                        !.reply = IF o.analysis = None THEN None
                                  ELSE Some(ServiceCall(client, aReply))]

\* the endpoint with a write of updated_at on the rows it reads
get_negotiation_context_touching(tenant_email, tie) ==
    /\ last = NoCall
    /\ UNCHANGED <<client, proc>>
    /\ IF tenant_email = NoEmail
       THEN /\ last' = Answer("context", tenant_email, <<>>, 400, "error")
            /\ UNCHANGED <<db, now>>
       ELSE LET n == get_negotiation(db, tenant_email, tie)
            IN  IF n = 0
                THEN /\ last' = Answer("context", tenant_email, <<>>, 404, "error")
                     /\ UNCHANGED <<db, now>>
                ELSE /\ now + 1 <= MaxClock
                     /\ db' = update_negotiation(db, tenant_email, <<>>, now + 1)
                     /\ now' = now + 1
                     /\ last' = [Answer("context", tenant_email, <<>>, 200,
                                        db[n].status)
                                 EXCEPT !.context = Some(db[n])]

\* POST /ai/get-negotiation-context (src/app.py:735-768)
get_negotiation_context(tenant_email, tie) ==
    /\ last = NoCall
    /\ UNCHANGED <<db, now, client, proc>>
    /\ IF tenant_email = NoEmail
       THEN last' = Answer("context", tenant_email, <<>>, 400, "error")
       ELSE LET n == get_negotiation(db, tenant_email, tie)
            IN  IF n = 0
                THEN last' = Answer("context", tenant_email, <<>>, 404, "error")
                ELSE last' = [Answer("context", tenant_email, <<>>, 200, db[n].status)
                              EXCEPT !.context = Some(db[n])]

Start ==
    \E e \in Emails \cup {NoEmail}, r \in RentInputs, t \in TargetInputs,
       z \in ZillowReplies, a \in EstimateReplies :
        start_negotiation(e, r, t, z, a)

Continue ==
    \E e \in RequestEmails, m \in TenantMessages,
       a \in AnalysisReplies, l \in LetterReplies :
        \E tie \in TiesOf(db, e) : continue_negotiation(e, m, a, l, tie)

Context ==
    \E e \in RequestEmails :
        \E tie \in TiesOf(db, e) : get_negotiation_context(e, tie)

\* start-negotiation with a current_rent of either sign
StartSigned ==
    \E e \in Emails \cup {NoEmail}, r \in SignedRentInputs, t \in TargetInputs,
       z \in ZillowReplies, a \in EstimateReplies :
        start_negotiation(e, r, t, z, a)

\* continue-negotiation where the analysis call fails and the letter call
\* raises, returns a letter or returns an empty text
ContinueLetters ==
    \E e \in Emails, m \in TenantMessages, l \in LetterReplies \cup {EmptyLetter} :
        \E tie \in TiesOf(db, e) : continue_negotiation(e, m, Raise, l, tie)

\* the caller takes the response; the next call is then served
Deliver ==
    /\ last /= NoCall
    /\ last' = NoCall
    /\ UNCHANGED <<db, now, client, proc>>

Next == Start \/ Continue \/ Context \/ Deliver

Spec == Init /\ [][Next]_vars

\* the records start-negotiation creates, for every current_rent int() yields
NextStart == StartSigned \/ Context \/ Deliver

SpecStart == Init /\ [][NextStart]_vars

\* two tenants: each starts with a target in the request, continues with
\* the service failing or countering at 2700, and fetches the context
StartPair ==
    \E e \in PairEmails, r \in {2000, 2500} :
        start_negotiation(e, r, Some(2900), None, None)

ContinuePair ==
    \E e \in PairEmails, m \in {M_ok, M_2800}, l \in LetterReplies,
       a \in {Raise} \cup {x \in Analyses : x.recommended_counter = Some(2700)} :
        \E tie \in TiesOf(db, e) : continue_negotiation(e, m, a, l, tie)

ContextPair ==
    \E e \in PairEmails :
        \E tie \in TiesOf(db, e) : get_negotiation_context(e, tie)

NextPair == StartPair \/ ContinuePair \/ ContextPair \/ Deliver

SpecPair == Init /\ [][NextPair]_vars

\* the estimator, called by its endpoint and by a start without target
EstimateRent ==
    \E r \in EstimateRents, z \in ZillowReplies, a \in WideEstimateReplies :
        estimate_rent(r, z, a)

StartEstimated ==
    \E e \in Emails, r \in EstimateRents, z \in ZillowReplies,
       a \in WideEstimateReplies :
        start_negotiation(e, r, None, z, a)

NextEstimate == EstimateRent \/ StartEstimated \/ Context \/ Deliver

SpecEstimate == Init /\ [][NextEstimate]_vars

\* a tenant who keeps offering 2800 against a position of 2800 while the
\* service fails for a time and then succeeds: the letter call may raise as
\* long as the clock leaves room for a later call, and a call whose letter
\* call returns is made again and again
RuleAnalysis ==
    [tenant_offer |-> Some(2800), tenant_intent |-> "accepting",
     should_accept |-> TRUE, recommended_counter |-> None]

RetryStart ==
    /\ db = <<>>
    /\ \E e \in Emails, r \in {2400, 2500} :
        start_negotiation(e, r, None, Some(2800), None)

RetryFails ==
    /\ now + 7 <= MaxClock
    /\ \E e \in Emails, a \in {Raise, RuleAnalysis} :
        \E tie \in TiesOf(db, e) : continue_negotiation(e, M_2800, a, Raise, tie)

RetrySucceeds ==
    \E e \in Emails, a \in {Raise, RuleAnalysis} :
        \E tie \in TiesOf(db, e) :
            continue_negotiation(e, M_2800, a, [text |-> <<"L">>], tie)

NextRetry == RetryStart \/ RetryFails \/ RetrySucceeds \/ Context \/ Deliver

\* a continue call can be made and the clock leaves room for its writes
CanRetry == last = NoCall /\ db /= <<>> /\ now + 5 <= MaxClock

\* the service eventually succeeds: if a call can be made again and again,
\* a call whose letter call returns is made again and again (strong
\* fairness of RetrySucceeds, with its enabling condition written out)
ServiceEventuallySucceeds ==
    []<>CanRetry => []<><<RetrySucceeds /\ last'.letter_text /= None>>_vars

SpecRetry ==
    /\ Init
    /\ [][NextRetry]_vars
    /\ WF_vars(RetryStart)
    /\ WF_vars(Deliver)
    /\ ServiceEventuallySucceeds

\* the letter step, for every content the service may return
NextLetter == Start \/ ContinueLetters \/ Context \/ Deliver

SpecLetter == Init /\ [][NextLetter]_vars

\* ------------------------------------- continue-negotiation, interleaved
\* Flask serves each request on its own thread; every SQL statement is one
\* step, and what a thread computes between two statements belongs to the
\* later one. A thread serves one call.
AllIdle == \A p \in Procs : proc[p].pc = "idle"

Goto(p, pc) == proc' = [proc EXCEPT ![p].pc = pc]

\* src/app.py:705-720: validation, then the first get_negotiation
Begin(p, tenant_email, tenant_message) ==
    /\ proc[p].pc = "idle"
    /\ last = NoCall
    /\ UNCHANGED <<db, now, client, last>>
    /\ LET call == [proc[p] EXCEPT !.tenant_email = tenant_email,
                                   !.tenant_message = tenant_message,
                                   !.base = Some([db |-> db, now |-> now])]
       IN  IF tenant_email = NoEmail \/ tenant_message = <<>>
           THEN proc' = [proc EXCEPT ![p].pc = "done", ![p].http = 400,
                                     ![p].status = "error"]
           ELSE \E tie \in TiesOf(db, tenant_email) :
                IF get_negotiation(db, tenant_email, tie) = 0
                THEN proc' = [proc EXCEPT ![p].pc = "done", ![p].http = 404,
                                          ![p].status = "error"]
                ELSE proc' = [proc EXCEPT ![p] =
                            [call EXCEPT !.pc = "read_negotiation"]]

\* src/app.py:317-319: negotiation = get_negotiation(tenant_email)
ReadNegotiation(p) ==
    /\ proc[p].pc = "read_negotiation"
    /\ UNCHANGED <<db, now, client, last>>
    /\ \E tie \in TiesOf(db, proc[p].tenant_email) :
        LET n == get_negotiation(db, proc[p].tenant_email, tie)
        IN  IF n = 0
            THEN proc' = [proc EXCEPT ![p].pc = "done", ![p].http = 500,
                                      ![p].status = "error"]
            ELSE proc' = [proc EXCEPT ![p].pc = "read_history",
                                      ![p].negotiation = Some(db[n])]

\* src/app.py:322-333: get_conversation_history, then the request messages:
\* the history read and the tenant message after it
ReadHistory(p) ==
    /\ proc[p].pc = "read_history"
    /\ UNCHANGED <<db, now, client, last>>
    /\ \E tie \in TiesOf(db, proc[p].tenant_email) :
        LET history == get_conversation_history(db, proc[p].tenant_email, tie)
        IN  proc' = [proc EXCEPT
                        ![p].pc = "add_user_read",
                        ![p].history = history,
                        ![p].messages =
                            Append(history,
                                   [role |-> "user",
                                    content |-> TextContent(proc[p].tenant_message)])]

\* src/app.py:118-122: add_message_to_history reads the live row
AddRead(p, from, to) ==
    /\ proc[p].pc = from
    /\ UNCHANGED <<db, now, client, last>>
    /\ \E tie \in TiesOf(db, proc[p].tenant_email) :
        LET n == get_negotiation(db, proc[p].tenant_email, tie)
        IN  proc' = [proc EXCEPT
                        ![p].pc = to,
                        ![p].read = IF n = 0 THEN None
                                    ELSE Some(db[n].conversation_history)]

\* src/app.py:123-129: the entry is appended to the history read and the
\* whole history is written back
AddWrite(p, from, to, role, content) ==
    /\ proc[p].pc = from
    /\ UNCHANGED <<client, last>>
    /\ IF proc[p].read = None
       THEN /\ UNCHANGED <<db, now>>
            /\ proc' = [proc EXCEPT ![p].pc = to]
       ELSE /\ now + 2 <= MaxClock
            /\ db' = update_negotiation(db, proc[p].tenant_email,
                        [conversation_history |->
                            AppendEntry(proc[p].read[1], Entry(role, content, now + 1))],
                        now + 2)
            /\ now' = now + 2
            /\ proc' = [proc EXCEPT
                            ![p].pc = to,
                            ![p].read = None,
                            ![p].user_ts = IF role = "user" THEN now + 1 ELSE @,
                            ![p].letter_ts = IF role = "assistant" THEN now + 1 ELSE @]

AddUserRead(p) == AddRead(p, "add_user_read", "add_user_write")

\* the tenant message not written to the store
AddUserWrite_skipped(p) ==
    /\ proc[p].pc = "add_user_write"
    /\ UNCHANGED <<db, now, client, last>>
    /\ Goto(p, "service")

AddUserWrite(p) ==
    AddWrite(p, "add_user_write", "service", "user",
             TextContent(proc[p].tenant_message))

\* src/app.py:401-491: the analysis call and the letter call
Service(p, aReply, lReply) ==
    /\ proc[p].pc = "service"
    /\ UNCHANGED <<db, now, client, last>>
    /\ LET aGot == ServiceCall(client, aReply)
           lGot == ServiceCall(client, lReply)
           analysis == analyse(proc[p].negotiation[1], proc[p].tenant_message, aGot)
       IN  proc' = [proc EXCEPT ![p] =
                [@ EXCEPT
                    !.aReply = aGot,
                    !.lReply = lGot,
                    !.analysis = Some(analysis),
                    !.pc = IF Raised(lGot) THEN "done" ELSE "add_letter_read",
                    !.http = IF Raised(lGot) THEN 500 ELSE @,
                    !.status = IF Raised(lGot) THEN "error" ELSE @,
                    !.letter_text =
                        IF Raised(lGot) THEN None ELSE Some(TextContent(lGot.text))]]

AddLetterRead(p) == AddRead(p, "add_letter_read", "add_letter_write")

AddLetterWrite(p) ==
    AddWrite(p, "add_letter_write", "update", "assistant",
             IF proc[p].letter_text = None THEN TextContent(<<>>)
             ELSE proc[p].letter_text[1])

\* src/app.py:497-519 and 725-732: the position and the status are written
\* from the row read at the start of the call
Update(p) ==
    /\ proc[p].pc = "update"
    /\ UNCHANGED <<client, last>>
    /\ now + 1 <= MaxClock
    /\ db' = update_negotiation(db, proc[p].tenant_email,
                transition_fields(proc[p].analysis[1], proc[p].negotiation[1]),
                now + 1)
    /\ now' = now + 1
    /\ proc' = [proc EXCEPT
                    ![p].pc = "done",
                    ![p].http = IF proc[p].letter_text[1] /= TextContent(<<>>)
                                THEN 200 ELSE 500,
                    ![p].status = IF proc[p].letter_text[1] /= TextContent(<<>>)
                                  THEN returned_status(proc[p].analysis[1])
                                  ELSE "error"]

\* the interleaved calls meet one record; the service replies with an
\* acceptance or a refusal of a message without a figure
ConcAnalysisReplies ==
    {Raise} \cup
    {a \in Analyses :
        a.tenant_offer = None /\ a.recommended_counter \in {None, Some(2700)}}

StartFirst ==
    /\ AllIdle
    /\ db = <<>>
    /\ \E e \in Emails : start_negotiation(e, 2500, Some(2900), None, None)

BeginCall ==
    \E p \in Procs, e \in Emails \cup {NoEmail}, m \in TenantMessages :
        Begin(p, e, m)

Read == \E p \in Procs : ReadNegotiation(p) \/ ReadHistory(p)

AddUser == \E p \in Procs : AddUserRead(p) \/ AddUserWrite(p)

CallService ==
    \E p \in Procs, a \in ConcAnalysisReplies, l \in LetterReplies :
        Service(p, a, l)

AddLetter == \E p \in Procs : AddLetterRead(p) \/ AddLetterWrite(p)

Apply == \E p \in Procs : Update(p)

NextConc ==
    StartFirst \/ Deliver \/ BeginCall \/ Read \/ AddUser \/ CallService
    \/ AddLetter \/ Apply

SpecConc == Init /\ [][NextConc]_vars

\* ------------------------------------------------------------------ claims
IsPrefix(h1, h2) == Len(h1) <= Len(h2) /\ SubSeq(h2, 1, Len(h1)) = h1

NonDecreasing(h) ==
    \A k \in 1 .. Len(h) - 1 : h[k].timestamp <= h[k + 1].timestamp

\* the row a finished call read at its start, and that row as stored now
Pre == last.negotiation[1]
Post == db[Pre.id]

\* a continue call that went through the engine has finished
Continued == last.op = "continue" /\ last.analysis /= None

\* the first figure a reader finds in each tenant message
FirstFigure(m) == IF m = M_2800 THEN Some(2800) ELSE None

\* the tenant accepts without naming a figure
AcceptsWithoutFigure(m) == m = M_ok

\* C1: in every reachable state every record has
\* current_rent <= current_target_rent <= initial_target_rent.
C1_PositionWithinBounds ==
    \A i \in DOMAIN db :
        /\ db[i].current_rent <= db[i].current_target_rent
        /\ db[i].current_target_rent <= db[i].initial_target_rent

\* C2: no continue call leaves current_target_rent above its value before
\* the call, and none leaves it below current_rent.
C2_PositionNeverRisesNorBelowFloor ==
    [][last'.op = "continue" =>
        \A i \in DOMAIN db :
            /\ db'[i].current_target_rent <= db[i].current_target_rent
            /\ db'[i].current_target_rent >= db'[i].current_rent]_vars

\* C3: once a record's status is accepted, no later call changes its
\* current_target_rent.
C3_AcceptedPositionFrozen ==
    [][\A i \in DOMAIN db :
        db[i].status = "accepted" =>
            db'[i].current_target_rent = db[i].current_target_rent]_vars

\* C4: once a record's stored status is accepted, it is accepted after
\* every further call.
C4_AcceptedIsTerminal ==
    [][\A i \in DOMAIN db :
        db[i].status = "accepted" => db'[i].status = "accepted"]_vars

\* a continue call ran to its end on a record that was already accepted,
\* and decided to counter
C4_Witness ==
    /\ Continued
    /\ last.http = 200
    /\ last.status = "countered"
    /\ Pre.status = "accepted"
    /\ Post.status = "accepted"

\* C5: for a tenant with one record, every call leaves the stored history
\* with its previous content as a prefix, and the timestamps of the stored
\* history are non-decreasing.
C5_HistoryAppendOnly ==
    [][\A i \in DOMAIN db :
        Cardinality(RowsOf(db', db[i].tenant_email)) = 1 =>
            /\ IsPrefix(db[i].conversation_history, db'[i].conversation_history)
            /\ NonDecreasing(db'[i].conversation_history)]_vars

\* a continue call appended the tenant message and the letter after the
\* opening letter of a tenant with one record
C5_Witness ==
    /\ Continued
    /\ last.http = 200
    /\ Cardinality(RowsOf(db, last.tenant_email)) = 1
    /\ Len(Post.conversation_history) >= Len(Pre.conversation_history) + 2
    /\ Len(Pre.conversation_history) >= 1

\* the interleaved calls have all finished
AllDone == \A p \in Procs : proc[p].pc = "done"

\* the entry thread p wrote with timestamp t is in every stored history of
\* its tenant
Kept(p, t, role) ==
    t /= 0 =>
        \A i \in RowsOf(db, proc[p].tenant_email) :
            \E k \in DOMAIN db[i].conversation_history :
                /\ db[i].conversation_history[k].timestamp = t
                /\ db[i].conversation_history[k].role = role

\* C6: after two interleaved continue calls the stored history holds both
\* tenant messages and every letter either call produced.
C6_NoEntryLost ==
    AllDone =>
        \A p \in Procs :
            Kept(p, proc[p].user_ts, "user") /\ Kept(p, proc[p].letter_ts, "assistant")

\* the position and the status of every record
PositionOf(d) ==
    [i \in DOMAIN d |->
        [current_target_rent |-> d[i].current_target_rent, status |-> d[i].status]]

\* the store after the call of thread p, run alone on store s
Alone(p, s) ==
    IF proc[p].base = None THEN s
    ELSE LET o == negotiate_with_ai(s.db, s.now, "lowest_id", client,
                        proc[p].tenant_email, proc[p].tenant_message,
                        proc[p].aReply, proc[p].lReply)
         IN  [db |-> o.db, now |-> o.now]

\* the store the first of the calls found
Base ==
    LET began == {p \in Procs : proc[p].base /= None}
    IN  IF began = {} THEN [db |-> db, now |-> now]
        ELSE LET first == CHOOSE p \in began :
                            \A q \in began : proc[p].base[1].now <= proc[q].base[1].now
             IN  proc[first].base[1]

\* C7: after two interleaved continue calls the stored position and status
\* are those of the two calls run one after the other, in one of the two
\* orders.
C7_PositionSerializable ==
    AllDone =>
        \/ PositionOf(db) = PositionOf(Alone(2, Alone(1, Base)).db)
        \/ PositionOf(db) = PositionOf(Alone(1, Alone(2, Base)).db)

\* C8: the acceptance decision of a continue call is true exactly when the
\* tenant's offer is >= the position before the call, or the tenant
\* accepted without naming a figure.
C8_DecisionMatchesRule ==
    Continued =>
        (last.analysis[1].should_accept <=>
            \/ /\ last.analysis[1].tenant_offer /= None
               /\ last.analysis[1].tenant_offer[1] >= Pre.current_target_rent
            \/ /\ last.analysis[1].tenant_offer = None
               /\ AcceptsWithoutFigure(last.tenant_message))

\* C9: the counter a non-accepting continue call applies lies between
\* current_rent and the position before the call, at most 100 below it.
C9_CounterWithinStep ==
    (Continued /\ last.http = 200 /\ ~last.analysis[1].should_accept) =>
        /\ Pre.current_rent <= Post.current_target_rent
        /\ Post.current_target_rent <= Pre.current_target_rent
        /\ Pre.current_target_rent - Post.current_target_rent <= 100

\* C10: when the analysis call fails the call goes on with the fallback
\* analysis: the offer is the first figure of the message, the decision is
\* true iff there is an offer >= the position, the intent is discussing and
\* the counter is the position; an error result then comes from the letter
\* step only (no letter, or an empty one); a non-accepting round leaves the
\* position unchanged.
C10_FallbackAnalysis ==
    (Continued /\ last.path = "fallback") =>
        LET analysis == last.analysis[1]
        IN  /\ analysis.tenant_offer = FirstFigure(last.tenant_message)
            /\ analysis.should_accept <=>
                    /\ FirstFigure(last.tenant_message) /= None
                    /\ FirstFigure(last.tenant_message)[1] >= Pre.current_target_rent
            /\ analysis.tenant_intent = "discussing"
            /\ analysis.recommended_counter = Some(Pre.current_target_rent)
            /\ last.prompt_figure /= None
            /\ last.http = 500 =>
                    \/ last.letter_text = None
                    \/ last.letter_text[1] = TextContent(<<>>)
            /\ ~analysis.should_accept =>
                    Post.current_target_rent = Pre.current_target_rent

\* the service failed at the analysis of a message whose figure is the
\* position, the letter was produced and the call accepted
C10_Witness ==
    /\ Continued
    /\ last.path = "fallback"
    /\ last.http = 200
    /\ last.analysis[1].tenant_offer = Some(Pre.current_target_rent)
    /\ Post.status = "accepted"

\* C11: a reply of the reasoning service that is not usable as the
\* structured analysis (not JSON, not an object, an object without the
\* expected fields) gives the analysis (offer, decision, counter) and the
\* transition of a failed service call on the same record and message.
C11_UnusableReplyIsFallback ==
    (Continued /\ last.reply[1] \in UnusableReplies) =>
        LET failed == fallback_analysis(Pre, last.tenant_message)
            fields == transition_fields(failed, Pre)
        IN  /\ last.analysis[1].tenant_offer = failed.tenant_offer
            /\ last.analysis[1].should_accept = failed.should_accept
            /\ counter_amount(last.analysis[1], Pre) = counter_amount(failed, Pre)
            /\ last.http = 200 =>
                    /\ Post.current_target_rent = fields.current_target_rent
                    /\ Post.status = IF "status" \in DOMAIN fields
                                     THEN fields.status ELSE Pre.status

\* C12: a tenant message that accepts without naming a figure is accepted
\* at the position before the call; on the deterministic fallback too the
\* decision is true and, once the letter is produced, the status is
\* accepted and the position is the one before the call.
C12_AcceptanceWithoutFigure ==
    (Continued /\ last.path = "fallback"
        /\ AcceptsWithoutFigure(last.tenant_message)) =>
        /\ last.analysis[1].should_accept
        /\ last.http = 200 =>
                /\ Post.status = "accepted"
                /\ Post.current_target_rent = Pre.current_target_rent

\* C13: a continue call that ends with an error result at the letter step
\* has appended no manager letter and has left the stored position and
\* status as they were before the call.
C13_NoWriteWithoutLetter ==
    (Continued /\ last.http = 500) =>
        /\ Post.current_target_rent = Pre.current_target_rent
        /\ Post.status = Pre.status
        /\ \A k \in DOMAIN Post.conversation_history :
                k > Len(Pre.conversation_history) =>
                    Post.conversation_history[k].role /= "assistant"

\* a continue call decided to accept and its letter was produced
Accepted == Continued /\ last.http = 200 /\ last.analysis[1].should_accept

C15_CounteredIsStored ==
    (Continued /\ last.http = 200 /\ ~last.analysis[1].should_accept) =>
        /\ Post.status = "countered"
        /\ last.analysis[1].recommended_counter /= None =>
                Post.current_target_rent = last.analysis[1].recommended_counter[1]

\* a start call created a record and answered with the opening letter
Started == last.op = "start" /\ last.http = 200

\* C16: after a successful start call the stored status of the new record
\* is countered, no longer active.
C16_StartLeavesCountered ==
    Started => Post.status = "countered"

\* C17: none of the dollar figures of the opening letter is the record's
\* initial_target_rent or current_target_rent.
C17_OpeningHidesTarget ==
    Started =>
        \A j \in DOMAIN last.letter_text[1].figures :
            /\ last.letter_text[1].figures[j] /= Pre.initial_target_rent
            /\ last.letter_text[1].figures[j] /= Pre.current_target_rent

\* C18: every stored record has a non-empty email and current_rent > 0; a
\* start call that reports a validation failure changes nothing.
C18_RecordsAreValid ==
    \A i \in DOMAIN db :
        db[i].tenant_email /= NoEmail /\ db[i].current_rent > 0

\* C19: a continue call with an empty tenant message is answered 400 and
\* one whose email has no record is answered 404; both leave the store and
\* the clock as they were and make no call to the reasoning service.
C19_RejectedContinueWritesNothing ==
    [][last'.op = "continue" =>
        LET unknown == RowsOf(db, last'.tenant_email) = {}
            empty == last'.tenant_message = <<>>
        IN  /\ empty => last'.http = 400
            /\ (unknown /\ ~empty /\ last'.tenant_email /= NoEmail) =>
                    last'.http = 404
            /\ (unknown \/ empty) =>
                    /\ db' = db
                    /\ now' = now
                    /\ last'.reply = None
                    /\ last'.path = "none"]_vars

\* a continue call for an email without a record was answered 404 while
\* the store holds a record with history
C19_Witness ==
    /\ last.op = "continue"
    /\ last.http = 404
    /\ last.tenant_email = UnknownEmail
    /\ last.tenant_message /= <<>>
    /\ \E i \in DOMAIN db : db[i].conversation_history /= <<>>

\* C20: a context call changes no record and does not read the clock; what
\* it answers is a row of the unchanged store, the latest of the email.
C20_ContextReadOnly ==
    [][last'.op = "context" =>
        /\ db' = db
        /\ now' = now
        /\ last'.http = 200 =>
                \E tie \in TiesOf(db, last'.tenant_email) :
                    last'.context =
                        Some(db'[get_negotiation(db', last'.tenant_email, tie)])]_vars

\* a context call answered with a record a continue call had accepted
C20_Witness ==
    /\ last.op = "context"
    /\ last.http = 200
    /\ last.context[1].status = "accepted"
    /\ Len(last.context[1].conversation_history) >= 3
    /\ last.context[1] \in {db[i] : i \in DOMAIN db}

\* the row a finished continue or context call read and reported
ReadRow == IF last.op = "context" THEN last.context ELSE last.negotiation

\* C21: when an email has several records, every continue and context call
\* for it reads and reports the most recently created one.
C21_NewestRecordIsLive ==
    (last.op \in {"continue", "context"} /\ ReadRow /= None) =>
        \A i \in RowsOf(db, last.tenant_email) : i <= ReadRow[1].id

\* C24: every call leaves the history of every stored record, the older
\* records of an email included, with its previous content as a prefix.
C24_EveryHistoryAppendOnly ==
    [][\A i \in DOMAIN db :
        IsPrefix(db[i].conversation_history, db'[i].conversation_history)]_vars

\* C23: for a continue call that returns accepted or countered, the figure
\* in the result (agreed_rent or management_offer), the figure the letter
\* prompt states and the stored position after the call are equal.
C23_FigureToldIsStored ==
    (Continued /\ last.http = 200) =>
        /\ last.status \in {"accepted", "countered"}
        /\ last.figure /= None
        /\ last.prompt_figure = last.figure
        /\ Post.current_target_rent = last.figure[1]

\* a call countered at a figure other than the position before it
C23_Witness ==
    /\ Continued
    /\ last.http = 200
    /\ last.status = "countered"
    /\ last.figure = Some(2700)
    /\ Pre.current_target_rent /= 2700
    /\ Post.current_target_rent = 2700

\* the entry a call stored for the tenant message
UserEntryOf(row) ==
    row.conversation_history[Len(Pre.conversation_history) + 1]

\* C29: a continue call that went through the engine extends the stored
\* history by the tenant entry, followed by the manager entry when the
\* letter call returned and by nothing when it raised.
C29_CallExtendsHistory ==
    Continued =>
        LET pre == Pre.conversation_history
            post == Post.conversation_history
        IN  /\ IsPrefix(pre, post)
            /\ Len(post) = Len(pre) + (IF last.letter_text = None THEN 1 ELSE 2)
            /\ UserEntryOf(Post).role = "user"
            /\ UserEntryOf(Post).content = TextContent(last.tenant_message)
            /\ last.letter_text /= None =>
                    /\ post[Len(pre) + 2].role = "assistant"
                    /\ post[Len(pre) + 2].content = last.letter_text[1]

\* a message was sent again after its first call failed at the letter, and
\* failed again: the history holds it twice
C29_Witness ==
    /\ Continued
    /\ last.letter_text = None
    /\ Len(Pre.conversation_history) >= 2
    /\ Pre.conversation_history[Len(Pre.conversation_history)].role = "user"
    /\ Pre.conversation_history[Len(Pre.conversation_history)].content =
            TextContent(last.tenant_message)
    /\ Len(Post.conversation_history) = Len(Pre.conversation_history) + 1
    /\ UserEntryOf(Post).content = TextContent(last.tenant_message)

C27_IdentityFieldsFrozen ==
    [][\A i \in DOMAIN db :
        /\ db'[i].tenant_email = db[i].tenant_email
        /\ db'[i].current_rent = db[i].current_rent
        /\ db'[i].initial_target_rent = db[i].initial_target_rent]_vars

\* two tenants have a record each, and a continue call has moved the
\* position of one of them away from its initial target
C27_Witness ==
    /\ Continued
    /\ last.http = 200
    /\ Post.current_target_rent /= Post.initial_target_rent
    /\ Post.initial_target_rent = Pre.initial_target_rent
    /\ \E j \in DOMAIN db :
            /\ db[j].tenant_email /= Post.tenant_email
            /\ db[j].current_rent /= Post.current_rent

\* the estimator was called for a positive current_rent: by its endpoint,
\* or by a start call that created a record
Estimated ==
    /\ last.estimate /= None
    /\ last.estimate[1].current_rent > 0
    /\ last.http = 200

\* C28: for a positive current_rent the estimator returns the scraped
\* figure (zillow, high) when there is one; else the service's figure
\* (ai_estimate, medium) when the service answered with a figure in
\* 500..50000 at most 50% away from current_rent; else floor(1.1 x
\* current_rent) (fallback_estimate, low). A start call without target
\* stores the figure as initial_target_rent and current_target_rent.
C28_EstimatorResult ==
    Estimated =>
        LET cr == last.estimate[1].current_rent
            z == last.estimate[1].zillow
            ai == last.estimate[1].ai
            usable ==
                /\ client = "bound" /\ ai /= None
                /\ 500 <= ai[1] /\ ai[1] <= 50000
                /\ 2 * ai[1] <= 3 * cr /\ 2 * ai[1] >= cr
            figure ==
                IF z /= None THEN z[1]
                ELSE IF usable THEN ai[1]
                ELSE (11 * cr) \div 10
            source ==
                IF z /= None THEN "zillow"
                ELSE IF usable THEN "ai_estimate"
                ELSE "fallback_estimate"
        IN  /\ last.figure = Some(figure)
            /\ last.source = source
            /\ last.op = "estimate" =>
                    last.status = CASE source = "zillow" -> "high"
                                    [] source = "ai_estimate" -> "medium"
                                    [] OTHER -> "low"
            /\ last.op = "start" =>
                    /\ Post.initial_target_rent = figure
                    /\ Post.current_target_rent = figure

\* a start call without target got a service figure just past 50% above
\* current_rent and stored the fallback figure
C28_Witness ==
    /\ Estimated
    /\ last.op = "start"
    /\ client = "bound"
    /\ last.estimate[1].zillow = None
    /\ last.estimate[1].ai = Some(3751)
    /\ last.estimate[1].current_rent = 2500
    /\ last.source = "fallback_estimate"
    /\ Post.current_target_rent = 2750

\* the number of entries of a request or a history that hold message m as
\* a tenant entry
Holding(entries, m) ==
    Cardinality({k \in DOMAIN entries :
                    /\ entries[k].role = "user"
                    /\ entries[k].content = TextContent(m)})

FailedAtLetter ==
    /\ client = "bound"
    /\ Continued
    /\ last.http = 500
    /\ last.analysis[1].should_accept
    /\ Post.status = "active"

\* a continue call returned its letter, and the call before it had failed
\* at the letter (it left the tenant message as the last entry)
RetrySucceeded ==
    /\ client = "bound"
    /\ Continued
    /\ last.http = 200
    /\ Pre.conversation_history[Len(Pre.conversation_history)].role = "user"

\* C22: a continue call that failed at the letter leaves the negotiation
\* open: the retry whose letter call returns updates position and status as
\* a first attempt does, and when the service eventually succeeds an offer
\* at the position leads to accepted.
C22_RetryProgresses ==
    /\ [](RetrySucceeded =>
            /\ Post.status = "accepted"
            /\ Post.current_target_rent = 2800
            /\ last.status = "accepted")
    /\ [](FailedAtLetter =>
            <>(\E i \in DOMAIN db :
                    /\ db[i].status = "accepted"
                    /\ db[i].current_target_rent = 2800))

\* the retry after a failed call was accepted and stored
C22_Witness ==
    /\ RetrySucceeded
    /\ Pre.status = "active"
    /\ Post.status = "accepted"
    /\ Post.current_target_rent = 2800
====
